---------------------------- MODULE Spec2Model ----------------------------
(***************************************************************************)
(* The diagram editor of the repository (the Diagram Creator script with   *)
(* connection anchors): its shape objects, the pointer/keyboard handlers   *)
(* and the DOT serializer, as one state machine.                           *)
(*                                                                         *)
(* Objects.  Every `new Shape(...)` allocates an object that lives as long *)
(* as something refers to it, whether or not it is still in `shapes`.      *)
(* `heap` is the sequence of all objects constructed so far; an object     *)
(* reference is its index in `heap` (Null = 0 is JavaScript's null).       *)
(* `shapes`, `selectedShape`, `startNode`, `endNode`, ... hold references. *)
(*                                                                         *)
(* Numbers.  Pointer coordinates are multiples of Grid pixels.  Grid is a  *)
(* power of two large enough that every `/ 2` the program performs on a    *)
(* value it can reach is exact in the integers (HalvesExact checks it).    *)
(*                                                                         *)
(* Not modelled: the pixels (redraw, the previews handleMouseMove draws,   *)
(* the cursor) and hoveredConnectionPoint, which only colours an anchor.   *)
(*                                                                         *)
(* The comparison client (the check button's script) shares no state with  *)
(* the editor; `client` is its page: the button, the error box, the list   *)
(* of findings and the click handlers that are waiting on a promise.       *)
(***************************************************************************)
EXTENDS Integers, Sequences, FiniteSets, TLC

\* ------------------------------------------------------------------ bounds
\* At most this many Shape objects are constructed in a behaviour.
MaxShapes == 3
\* At most this many tool-button clicks in a behaviour.
MaxToolClicks == 3
\* At most this many pointer moves that drag a shape in a behaviour.
MaxDragMoves == 1
\* At most this many property-editor writes and relabels in a behaviour.
MaxEdits == 1

\* At most this many clicks on the check button in a behaviour.
MaxChecks == 3

\* The boxes a method applied on its own is given have origins in
\* -MaxProbe..MaxProbe and even sides up to 2 * MaxProbe, besides the box
\* of the documentation's example.
MaxProbe == 2

RECURSIVE Pow2(_)
Pow2(n) == IF n = 0 THEN 1 ELSE 2 * Pow2(n - 1)

\* Pointer positions are multiples of Grid.  The k-th object constructed has
\* fields that are multiples of Grid / 2^(k-1), so its anchors are integers.
Grid == Pow2(MaxShapes)
Points == {<<0, 0>>, <<Grid, Grid>>}
\* Widths the canvas may report for a non-empty label (ctx.measureText).
MeasuredWidths == {Grid}

\* Boxes for a method applied on its own.  Sides are even, so that the
\* integer half is the half JavaScript computes.
ProbeOrigins == -MaxProbe..MaxProbe
ProbeWidths == {2 * k : k \in 0..MaxProbe} \cup {100}
ProbeHeights == {2 * k : k \in 0..MaxProbe} \cup {40}

\* --------------------------------------------------------------- constants
Null == 0
NullPoint == "null"
Undefined == "undefined"
Tools == {"select", "rectangle", "circle", "line", "arrow", "text"}
Directions == <<"north", "south", "east", "west">>
DefaultStroke == <<"#", "0", "0", "0", "0", "0", "0">>
DefaultFill == <<"#", "f", "f", "f", "f", "f", "f">>
DefaultLineWidth == 2
MinDrag == 5
AnchorThreshold == 10
LineThreshold == 8
\* Values the property editor's inputs deliver.
EditorColors == {<<"#", "f", "f", "0", "0", "0", "0">>}
EditorWidths == {1, 10}
EditorLabels == {"", "B"}
\* What prompt() returns: null (declined), the empty string, or a label.
PromptAnswers == {[ok |-> FALSE, text |-> ""], [ok |-> TRUE, text |-> ""],
                  [ok |-> TRUE, text |-> "A"]}

VARIABLES currentTool, heap, shapes, selectedShape, isDragging, isDrawing,
          drawingConnection, startX, startY, dragOffsetX, dragOffsetY,
          nextShapeId, startConnectionPoint, dotPreview,
          toolClicks, dragMoves, edits, probe, client

vars == <<currentTool, heap, shapes, selectedShape, isDragging, isDrawing,
          drawingConnection, startX, startY, dragOffsetX, dragOffsetY,
          nextShapeId, startConnectionPoint, dotPreview,
          toolClicks, dragMoves, edits, probe, client>>

\* The counters that bound the behaviours explored; the program has none.
budgets == <<toolClicks, dragMoves, edits>>

\* ------------------------------------------------------------ Shape class
\* The object `new Shape(type, x, y, width, height, text)` builds when the
\* id counter stands at `id`.
NewShape(id, type, x, y, width, height, text) ==
    [id |-> id, type |-> type, x |-> x, y |-> y, width |-> width,
     height |-> height, text |-> text, strokeColor |-> DefaultStroke,
     fillColor |-> DefaultFill, lineWidth |-> DefaultLineWidth,
     startNode |-> Null, startPoint |-> NullPoint,
     endNode |-> Null, endPoint |-> NullPoint]

Half(n) == n \div 2
Abs(n) == IF n < 0 THEN -n ELSE n
Min(a, b) == IF a < b THEN a ELSE b

\* The type test that getConnectionPoints, findConnectionPoint and the
\* handlers repeat: a shape that is neither a line, an arrow nor a text.
HasAnchors(s) == s.type # "line" /\ s.type # "arrow" /\ s.type # "text"

\* A getConnectionPoints that puts a circle's anchors on the circle drawn
\* (radius min(width, height) / 2 around the box centre) instead of on its
\* box; AnchorsOfBox tells the two apart.
GetConnectionPointsOnCircle(s) ==
    IF ~HasAnchors(s) THEN << >>
    ELSE LET centerX == s.x + Half(s.width)
             centerY == s.y + Half(s.height)
             radius == Half(Min(s.width, s.height))
         IN IF s.type = "circle"
            THEN [north |-> <<centerX, centerY - radius>>,
                  south |-> <<centerX, centerY + radius>>,
                  east |-> <<centerX + radius, centerY>>,
                  west |-> <<centerX - radius, centerY>>]
            ELSE [north |-> <<centerX, s.y>>,
                  south |-> <<centerX, s.y + s.height>>,
                  east |-> <<s.x + s.width, centerY>>,
                  west |-> <<s.x, centerY>>]

\* getConnectionPoints: the anchors by name, as <<x, y>>; the empty array
\* for lines, arrows and texts.  Both branches (circle, everything else)
\* are written out as in the source.
GetConnectionPoints(s) ==
    IF ~HasAnchors(s) THEN << >>
    ELSE LET centerX == s.x + Half(s.width)
             centerY == s.y + Half(s.height)
         IN IF s.type = "circle"
            THEN [north |-> <<centerX, s.y>>,
                  south |-> <<centerX, s.y + s.height>>,
                  east |-> <<s.x + s.width, centerY>>,
                  west |-> <<s.x, centerY>>]
            ELSE [north |-> <<centerX, s.y>>,
                  south |-> <<centerX, s.y + s.height>>,
                  east |-> <<s.x + s.width, centerY>>,
                  west |-> <<s.x, centerY>>]

\* getConnectionCoordinates: points[point], or the box centre when the
\* shape has no such anchor.
GetConnectionCoordinates(s, point) ==
    LET points == GetConnectionPoints(s)
    IN IF point \in DOMAIN points THEN points[point]
       ELSE <<s.x + Half(s.width), s.y + Half(s.height)>>

DistSq(x1, y1, x2, y2) == (x1 - x2) * (x1 - x2) + (y1 - y2) * (y1 - y2)

\* findConnectionPoint: the first anchor, in the order north, south, east,
\* west, whose distance to (x, y) is below the threshold; null otherwise.
\* sqrt(d) < 10 is compared as d < 10 * 10.
FindConnectionPoint(s, x, y) ==
    IF ~HasAnchors(s) THEN NullPoint
    ELSE LET points == GetConnectionPoints(s)
             near == {i \in 1..Len(Directions) :
                        DistSq(x, y, points[Directions[i]][1],
                               points[Directions[i]][2])
                          < AnchorThreshold * AnchorThreshold}
         IN IF near = {} THEN NullPoint
            ELSE Directions[CHOOSE i \in near : \A j \in near : i <= j]

\* The start and end a connector is drawn and hit-tested with
\* (drawLine, drawArrow and containsLine resolve them the same way).
ResolvedStart(h, s) ==
    IF s.startNode # Null /\ s.startPoint # NullPoint
    THEN GetConnectionCoordinates(h[s.startNode], s.startPoint)
    ELSE <<s.x, s.y>>

\* A resolution of the end that reads the connector's own box even when
\* the end is bound; LiveResolution tells the two apart.
ResolvedEndStored(h, s) == <<s.x + s.width, s.y + s.height>>

ResolvedEnd(h, s) ==
    IF s.endNode # Null /\ s.endPoint # NullPoint
    THEN GetConnectionCoordinates(h[s.endNode], s.endPoint)
    ELSE <<s.x + s.width, s.y + s.height>>

\* pointToLineDistance(px, py, x1, y1, x2, y2) < limit, in exact arithmetic:
\* with dot = (p - p1).(p2 - p1) and t = clamp(dot / length^2, 0, 1), the
\* squared distance is |p - p1|^2 for t = 0, |p - p2|^2 for t = 1 and
\* cross^2 / length^2 in between.
PointToLineDistanceBelow(px, py, x1, y1, x2, y2, limit) ==
    LET dx == x2 - x1
        dy == y2 - y1
        lenSq == dx * dx + dy * dy
        dot == (px - x1) * dx + (py - y1) * dy
        cross == (px - x1) * dy - (py - y1) * dx
    IN IF lenSq = 0 THEN DistSq(px, py, x1, y1) < limit * limit
       ELSE IF dot <= 0 THEN DistSq(px, py, x1, y1) < limit * limit
       ELSE IF dot >= lenSq THEN DistSq(px, py, x2, y2) < limit * limit
       ELSE cross * cross < limit * limit * lenSq

ContainsLine(h, s, x, y) ==
    LET a == ResolvedStart(h, s)
        b == ResolvedEnd(h, s)
    IN PointToLineDistanceBelow(x, y, a[1], a[2], b[1], b[2], LineThreshold)

\* ctx.measureText(text).width: nothing for the empty string, otherwise the
\* width mw the canvas reports.
MeasureText(text, mw) == IF text = "" THEN 0 ELSE mw

\* contains(x, y); sqrt(d) <= radius is compared as 4 d <= (2 radius)^2.
Contains(h, s, x, y, mw) ==
    IF s.type = "line" \/ s.type = "arrow" THEN ContainsLine(h, s, x, y)
    ELSE IF s.type = "circle"
    THEN LET diameter == Min(s.width, s.height)
             dx == x - (s.x + Half(s.width))
             dy == y - (s.y + Half(s.height))
         IN diameter >= 0 /\ 4 * (dx * dx + dy * dy) <= diameter * diameter
    ELSE IF s.type = "text"
    THEN /\ x >= s.x /\ x <= s.x + MeasureText(s.text, mw)
         /\ y >= s.y - 16 /\ y <= s.y + 4
    ELSE /\ x >= s.x /\ x <= s.x + s.width
         /\ y >= s.y /\ y <= s.y + s.height

\* ------------------------------------------------------------- serializer
\* String.replace('#', ''): the string without its first '#'.
RECURSIVE RemoveFirstHash(_)
RemoveFirstHash(str) ==
    IF str = << >> THEN << >>
    ELSE IF Head(str) = "#" THEN Tail(str)
    ELSE <<Head(str)>> \o RemoveFirstHash(Tail(str))

\* Array.filter(s => s.type === a || s.type === b): the members of a list
\* whose type is one of `types`, in order.
RECURSIVE FilterByType(_, _, _)
FilterByType(h, refs, types) ==
    IF refs = << >> THEN << >>
    ELSE IF h[Head(refs)].type \in types
         THEN <<Head(refs)>> \o FilterByType(h, Tail(refs), types)
         ELSE FilterByType(h, Tail(refs), types)

\* One line of the document per element: the fixed lines as text, a node
\* declaration and an edge declaration by their interpolated parts.
TextLine(t) == [kind |-> "text", text |-> t]

\* A node declaration whose label is the text even when it is empty (no
\* `|| node${id}`); NodeDeclarations tells the two apart.
NodeLineWithoutDefault(s) ==
    [kind |-> "node", name |-> <<"node", s.id>>,
     label |-> <<s.text>>,
     shape |-> IF s.type = "circle" THEN "ellipse" ELSE "box",
     fillcolor |-> <<"#">> \o RemoveFirstHash(s.fillColor),
     color |-> <<"#">> \o RemoveFirstHash(s.strokeColor),
     penwidth |-> s.lineWidth]

\* The node declaration updateDOTPreview and exportToDOT write for a shape.
NodeLine(s) ==
    [kind |-> "node", name |-> <<"node", s.id>>,
     label |-> IF s.text # "" THEN <<s.text>> ELSE <<"node", s.id>>,
     shape |-> IF s.type = "circle" THEN "ellipse" ELSE "box",
     fillcolor |-> <<"#">> \o RemoveFirstHash(s.fillColor),
     color |-> <<"#">> \o RemoveFirstHash(s.strokeColor),
     penwidth |-> s.lineWidth]

\* An edge declaration that writes `->` whatever the connector's kind;
\* EdgeOperatorAndEnds tells the two apart.
EdgeLineAlwaysDirected(h, e) ==
    [kind |-> "edge", from |-> <<"node", h[e.startNode].id>>,
     op |-> "->",
     to |-> <<"node", h[e.endNode].id>>,
     color |-> <<"#">> \o RemoveFirstHash(e.strokeColor),
     penwidth |-> e.lineWidth]

\* The edge declaration updateDOTPreview and exportToDOT write for a
\* connector with both node references set.
EdgeLine(h, e) ==
    [kind |-> "edge", from |-> <<"node", h[e.startNode].id>>,
     op |-> IF e.type = "arrow" THEN "->" ELSE "--",
     to |-> <<"node", h[e.endNode].id>>,
     color |-> <<"#">> \o RemoveFirstHash(e.strokeColor),
     penwidth |-> e.lineWidth]

RECURSIVE NodeLines(_, _)
NodeLines(h, nodes) ==
    IF nodes = << >> THEN << >>
    ELSE <<NodeLine(h[Head(nodes)])>> \o NodeLines(h, Tail(nodes))

\* An edge list without the `if (edge.startNode && edge.endNode)` test,
\* naming a missing node `node${undefined}`; UnboundConnectorsOmitted tells
\* the two apart.
RECURSIVE EdgeLinesUnguarded(_, _)
EdgeLinesUnguarded(h, edges) ==
    IF edges = << >> THEN << >>
    ELSE LET edge == h[Head(edges)]
         IN <<IF edge.startNode # Null /\ edge.endNode # Null
              THEN EdgeLine(h, edge)
              ELSE [kind |-> "edge", from |-> <<"node", Undefined>>,
                    op |-> IF edge.type = "arrow" THEN "->" ELSE "--",
                    to |-> <<"node", Undefined>>,
                    color |-> <<"#">> \o RemoveFirstHash(edge.strokeColor),
                    penwidth |-> edge.lineWidth]>>
            \o EdgeLinesUnguarded(h, Tail(edges))

RECURSIVE EdgeLines(_, _)
EdgeLines(h, edges) ==
    IF edges = << >> THEN << >>
    ELSE LET edge == h[Head(edges)]
         IN (IF edge.startNode # Null /\ edge.endNode # Null
             THEN <<EdgeLine(h, edge)>> ELSE << >>)
            \o EdgeLines(h, Tail(edges))

\* The text updateDOTPreview writes into the preview element.
DOTPreviewText(h, shs) ==
    LET nodes == FilterByType(h, shs, {"circle", "rectangle"})
        edges == FilterByType(h, shs, {"arrow", "line"})
    IN <<TextLine("digraph G {"), TextLine("  node [shape=record];"),
         TextLine("  rankdir=TB;"), TextLine("")>>
       \o NodeLines(h, nodes) \o <<TextLine("")>>
       \o EdgeLines(h, edges) \o <<TextLine("}")>>

\* An exportToDOT without the `if (edge.startNode && edge.endNode)` test of
\* its edge loop; SerializersAgree tells the two apart.
ExportToDOTTextUnguarded(h, shs) ==
    LET nodes == FilterByType(h, shs, {"circle", "rectangle"})
        edges == FilterByType(h, shs, {"arrow", "line"})
    IN <<TextLine("digraph G {"), TextLine("  node [shape=record];"),
         TextLine("  rankdir=TB;"), TextLine("")>>
       \o NodeLines(h, nodes) \o <<TextLine("")>>
       \o EdgeLinesUnguarded(h, edges) \o <<TextLine("}")>>

\* The text exportToDOT downloads.
ExportToDOTText(h, shs) ==
    LET nodes == FilterByType(h, shs, {"circle", "rectangle"})
        edges == FilterByType(h, shs, {"arrow", "line"})
    IN <<TextLine("digraph G {"), TextLine("  node [shape=record];"),
         TextLine("  rankdir=TB;"), TextLine("")>>
       \o NodeLines(h, nodes) \o <<TextLine("")>>
       \o EdgeLines(h, edges) \o <<TextLine("}")>>

\* ------------------------------------------------------ comparison client
\* Texts are sequences of their parts; the empty sequence is the empty
\* string, and also stands for null where the script only tests truthiness.
NoText == << >>
FallbackMessage == <<"Failed to compare diagrams.">>

\* What the source text area may hold and what buildStudentDiagram() may
\* find: no getCurrentDiagram on the page, a diagram, or a diagram that
\* JSON.stringify cannot serialize (a cyclic object).
SourceTexts == {NoText, <<"class A {}">>}
StudentDiagrams == {"empty", "diagram", "cyclic"}

\* HTTP statuses a response may carry; res.ok is true for 200..299.
Statuses == {200, 404, 500}
ResponseOk(status) == status >= 200 /\ status <= 299

\* How the promise of fetch() settles: rejected with an error (whose
\* message may be empty), or fulfilled with a response.
FetchOutcomes ==
    {[kind |-> "reject", message |-> m, status |-> 0] :
        m \in {<<"Failed to fetch">>, NoText}}
    \cup {[kind |-> "response", message |-> NoText, status |-> s] :
            s \in Statuses}

\* How the promise of res.json() settles: rejected (the body is not JSON),
\* or fulfilled with the parsed value: null, an object without `mistakes`,
\* or one whose `mistakes` is a string or an array of entries, an entry
\* being a finding ("m") or null.
JsonOutcomes ==
    {[kind |-> "reject", items |-> << >>], [kind |-> "null", items |-> << >>],
     [kind |-> "missing", items |-> << >>],
     [kind |-> "string", items |-> << >>]}
    \cup {[kind |-> "array", items |-> i] :
            i \in {<< >>, <<"m">>, <<"m", "m">>, <<"m", "null">>,
                   <<"null">>}}

\* The page once DOMContentLoaded has registered the click handler: the
\* button enabled, no error, no findings, nothing logged to the console,
\* no handler waiting.
ClientLoaded ==
    [disabled |-> FALSE, label |-> "Check Diagram", errorText |-> NoText,
     errorVisible |-> FALSE, list |-> << >>, noMistakesVisible |-> FALSE,
     console |-> << >>, pending |-> << >>, clicks |-> 0]

\* setError(message)
SetError(c, message) ==
    IF message # NoText
    THEN [c EXCEPT !.errorText = message, !.errorVisible = TRUE]
    ELSE [c EXCEPT !.errorText = NoText, !.errorVisible = FALSE]

\* setLoading(isLoading)
SetLoading(c, isLoading) ==
    [c EXCEPT !.disabled = isLoading,
              !.label = IF isLoading THEN "Checking..." ELSE "Check Diagram"]

\* The entries of an array before its first null entry.
RECURSIVE BeforeNull(_)
BeforeNull(items) ==
    IF items = << >> \/ Head(items) = "null" THEN << >>
    ELSE <<Head(items)>> \o BeforeNull(Tail(items))

\* renderMistakes(mistakes): the page it leaves and the error it throws,
\* if any.  The list is cleared first; an empty array shows the "no
\* mistakes" note; otherwise one item is appended per entry, until an entry
\* is null (m.kind throws) or at once when mistakes has no forEach.
RenderMistakes(c, mistakes) ==
    LET cleared == [c EXCEPT !.list = << >>]
    IN IF mistakes.kind = "array" /\ mistakes.items = << >>
       THEN [page |-> [cleared EXCEPT !.noMistakesVisible = TRUE],
             thrown |-> NoText]
       ELSE IF mistakes.kind = "string"
       THEN [page |-> [cleared EXCEPT !.noMistakesVisible = FALSE],
             thrown |-> <<"mistakes.forEach is not a function">>]
       ELSE [page |-> [cleared EXCEPT
                          !.noMistakesVisible = FALSE,
                          !.list = BeforeNull(mistakes.items)],
             thrown |-> IF \E i \in 1..Len(mistakes.items) :
                              mistakes.items[i] = "null"
                        THEN <<"Cannot read properties of null">>
                        ELSE NoText]

\* ----------------------------------------------------------------- state
\* `probe` holds the argument and the result of a pure method applied on
\* its own (the specifications below named after a method); the editor
\* never touches it.
NoProbe == [shape |-> << >>, done |-> FALSE, out |-> << >>]
NoConnectionPoint == [shape |-> Null, point |-> NullPoint]
\* The preview element's content before the first updateDOTPreview.
InitialPreview == << >>

\* The script's globals once it has loaded.
InitEditor ==
    /\ currentTool = "select"
    /\ heap = << >>
    /\ shapes = << >>
    /\ selectedShape = Null
    /\ isDragging = FALSE
    /\ isDrawing = FALSE
    /\ drawingConnection = FALSE
    /\ startX = Undefined
    /\ startY = Undefined
    /\ dragOffsetX = Undefined
    /\ dragOffsetY = Undefined
    /\ nextShapeId = 1
    /\ startConnectionPoint = NoConnectionPoint
    /\ dotPreview = InitialPreview
    /\ toolClicks = 0
    /\ dragMoves = 0
    /\ edits = 0
    /\ client = ClientLoaded

Init == InitEditor /\ probe = NoProbe

\* ------------------------------------------------------------- operations
\* `this.id = nextShapeId++`: the counter after a construction.
PostIncrement(n) == n + 1

\* A scan that runs from the oldest shape to the newest;
\* SelectPicksLastCreated tells it from the reverse scan.
FirstPosition(hits) == CHOOSE i \in hits : \A j \in hits : i <= j

\* for (let i = shapes.length - 1; i >= 0; i--) ... first match: the last
\* matching position of the list.
ScanReverse(hits) == CHOOSE i \in hits : \A j \in hits : j <= i

\* for (let shape of shapes) ... first match: the first matching position.
ScanForward(hits) == CHOOSE i \in hits : \A j \in hits : i <= j

\* shapes.filter(s => s !== selectedShape)
WithoutSelected(shs, sel) == SelectSeq(shs, LAMBDA r : r # sel)

\* A construction is possible while the model's object budget lasts.
CanConstruct == Len(heap) < MaxShapes

\* Tool button click.
SelectTool(tool) ==
    /\ toolClicks < MaxToolClicks
    /\ currentTool' = tool
    /\ toolClicks' = toolClicks + 1
    /\ UNCHANGED <<heap, shapes, selectedShape, isDragging, isDrawing,
                   drawingConnection, startX, startY, dragOffsetX,
                   dragOffsetY, nextShapeId, startConnectionPoint, dotPreview,
                   dragMoves, edits, probe, client>>

\* A hit test that only shapes with anchors pass (connectors and texts
\* cannot be picked); SelectStartsDrag tells it from contains().
ContainingNodePositions(x, y, mw) ==
    {i \in 1..Len(shapes) :
        /\ HasAnchors(heap[shapes[i]])
        /\ Contains(heap, heap[shapes[i]], x, y, mw)}

\* Positions of `shapes` whose shape contains the point.
ContainingPositions(x, y, mw) ==
    {i \in 1..Len(shapes) : Contains(heap, heap[shapes[i]], x, y, mw)}

\* An anchor test that also wants the pointer inside the shape;
\* AnchorsBeforeFreeDraw tells it from the test on anchors alone.
AnchorPositionsContained(x, y) ==
    {i \in 1..Len(shapes) :
        /\ HasAnchors(heap[shapes[i]])
        /\ Contains(heap, heap[shapes[i]], x, y, 0)
        /\ FindConnectionPoint(heap[shapes[i]], x, y) # NullPoint}

\* Positions of `shapes` whose shape has an anchor in range of the point.
AnchorPositions(x, y) ==
    {i \in 1..Len(shapes) :
        /\ HasAnchors(heap[shapes[i]])
        /\ FindConnectionPoint(heap[shapes[i]], x, y) # NullPoint}

\* handleMouseDown at canvas position (x, y); mw is the width the canvas
\* measures for a label during this event.
MouseDown(x, y, mw) ==
    /\ IF currentTool = "select"
       THEN LET hits == ContainingPositions(x, y, mw)
            IN /\ IF hits # {}
                  THEN LET sel == shapes[ScanReverse(hits)]
                       IN /\ selectedShape' = sel
                          /\ isDragging' = TRUE
                          /\ dragOffsetX' = x - heap[sel].x
                          /\ dragOffsetY' = y - heap[sel].y
                  ELSE /\ selectedShape' = Null
                       /\ UNCHANGED <<isDragging, dragOffsetX, dragOffsetY>>
               /\ UNCHANGED <<isDrawing, drawingConnection, startX, startY,
                              startConnectionPoint>>
       ELSE IF currentTool = "line" \/ currentTool = "arrow"
       THEN LET hits == AnchorPositions(x, y)
            IN /\ IF hits # {}
                  THEN LET ref == shapes[ScanReverse(hits)]
                           point == FindConnectionPoint(heap[ref], x, y)
                           coords ==
                               GetConnectionCoordinates(heap[ref], point)
                       IN /\ drawingConnection' = TRUE
                          /\ startConnectionPoint' =
                                 [shape |-> ref, point |-> point]
                          /\ startX' = coords[1]
                          /\ startY' = coords[2]
                          /\ UNCHANGED isDrawing
                  ELSE /\ isDrawing' = TRUE
                       /\ startX' = x
                       /\ startY' = y
                       /\ UNCHANGED <<drawingConnection,
                                      startConnectionPoint>>
               /\ UNCHANGED <<selectedShape, isDragging, dragOffsetX,
                              dragOffsetY>>
       ELSE /\ isDrawing' = TRUE
            /\ startX' = x
            /\ startY' = y
            /\ UNCHANGED <<selectedShape, isDragging, dragOffsetX,
                           dragOffsetY, drawingConnection,
                           startConnectionPoint>>
    /\ UNCHANGED <<currentTool, heap, shapes, nextShapeId,
                   dotPreview, budgets, probe, client>>

\* The heap after dragging object `sel` with the pointer at (x, y).
Dragged(h, sel, x, y) ==
    IF h[sel].type # "line" /\ h[sel].type # "arrow"
    THEN [h EXCEPT ![sel].x = x - dragOffsetX, ![sel].y = y - dragOffsetY]
    ELSE h

\* A handleMouseMove that drags whenever a shape is selected, pressed or
\* not; MoveWithoutDragKeepsStore tells the two apart.
MouseMoveDragsSelection(x, y) ==
    /\ IF selectedShape # Null
       THEN /\ dragMoves < MaxDragMoves
            /\ heap' = Dragged(heap, selectedShape, x, y)
            /\ dragMoves' = dragMoves + 1
       ELSE UNCHANGED <<heap, dragMoves>>
    /\ UNCHANGED <<currentTool, shapes, selectedShape, isDragging, isDrawing,
                   drawingConnection, startX, startY, dragOffsetX,
                   dragOffsetY, nextShapeId, startConnectionPoint,
                   dotPreview, toolClicks, edits, probe, client>>

\* handleMouseMove at canvas position (x, y).  The previews it draws are
\* pixels only.
MouseMove(x, y) ==
    /\ IF isDragging /\ selectedShape # Null
       THEN /\ dragMoves < MaxDragMoves
            /\ heap' = Dragged(heap, selectedShape, x, y)
            /\ dragMoves' = dragMoves + 1
       ELSE UNCHANGED <<heap, dragMoves>>
    /\ UNCHANGED <<currentTool, shapes, selectedShape, isDragging, isDrawing,
                   drawingConnection, startX, startY, dragOffsetX,
                   dragOffsetY, nextShapeId, startConnectionPoint,
                   dotPreview, toolClicks, edits, probe, client>>

\* A release scan without `shape !== startConnectionPoint.shape`;
\* BindingAllOrNothing tells the two apart.
ReleasePositionsWithSource(x, y) == AnchorPositions(x, y)

\* Positions of `shapes` a connection from startConnectionPoint may end at.
ReleasePositions(x, y) ==
    {i \in AnchorPositions(x, y) : shapes[i] # startConnectionPoint.shape}

\* The connector the connection branch of handleMouseUp builds.
BoundConnector(id, type, from, ref, point) ==
    [NewShape(id, type, 0, 0, 0, 0, "") EXCEPT
        !.startNode = from.shape, !.startPoint = from.point,
        !.endNode = ref, !.endPoint = point]

\* A size test with `||` for `&&`; NodeCommitThreshold tells the two apart.
BigEnoughEitherSide(width, height) ==
    Abs(width) > MinDrag \/ Abs(height) > MinDrag

\* Whether the node branch of handleMouseUp commits a box of this size.
BigEnough(width, height) == Abs(width) > MinDrag /\ Abs(height) > MinDrag

\* A drawing branch that tests the prompt's answer with `text !== null`,
\* so that the empty string makes a text; TextCommitNeedsLabel tells the
\* two apart.
DrawnAcceptsEmpty(x, y, answer) ==
    LET width == x - startX
        height == y - startY
    IN IF currentTool = "text"
       THEN IF answer.ok
            THEN <<NewShape(nextShapeId, "text", startX, startY, 0, 0,
                            answer.text)>>
            ELSE << >>
       ELSE IF currentTool = "line" \/ currentTool = "arrow"
       THEN <<NewShape(nextShapeId, currentTool, startX, startY,
                       x - startX, y - startY, "")>>
       ELSE IF BigEnough(width, height)
       THEN <<NewShape(nextShapeId, currentTool, Min(startX, x),
                       Min(startY, y), Abs(width), Abs(height), "")>>
       ELSE << >>

\* A drawing branch that applies the size test to lines and arrows too;
\* FreeConnectorCommits tells the two apart.
DrawnLinesOverThreshold(x, y, answer) ==
    LET width == x - startX
        height == y - startY
    IN IF currentTool = "text"
       THEN IF answer.ok /\ answer.text # ""
            THEN <<NewShape(nextShapeId, "text", startX, startY, 0, 0,
                            answer.text)>>
            ELSE << >>
       ELSE IF BigEnough(width, height)
       THEN IF currentTool = "line" \/ currentTool = "arrow"
            THEN <<NewShape(nextShapeId, currentTool, startX, startY,
                            x - startX, y - startY, "")>>
            ELSE <<NewShape(nextShapeId, currentTool, Min(startX, x),
                            Min(startY, y), Abs(width), Abs(height), "")>>
       ELSE << >>

\* The shapes (none or one) the drawing branch of handleMouseUp constructs
\* for a release at (x, y), given what prompt() answers.
Drawn(x, y, answer) ==
    LET width == x - startX
        height == y - startY
    IN IF currentTool = "text"
       THEN IF answer.ok /\ answer.text # ""
            THEN <<NewShape(nextShapeId, "text", startX, startY, 0, 0,
                            answer.text)>>
            ELSE << >>
       ELSE IF currentTool = "line" \/ currentTool = "arrow"
       THEN <<NewShape(nextShapeId, currentTool, startX, startY,
                       x - startX, y - startY, "")>>
       ELSE IF BigEnough(width, height)
       THEN <<NewShape(nextShapeId, currentTool, Min(startX, x),
                       Min(startY, y), Abs(width), Abs(height), "")>>
       ELSE << >>

\* handleMouseUp at canvas position (x, y), in a session of at most `limit`
\* constructions.
MouseUpWithin(x, y, answer, limit) ==
    /\ IF drawingConnection
       THEN LET hits == ReleasePositions(x, y)
            IN IF hits # {}
               THEN LET ref == shapes[ScanForward(hits)]
                        connector ==
                            BoundConnector(nextShapeId, currentTool,
                                startConnectionPoint, ref,
                                FindConnectionPoint(heap[ref], x, y))
                    IN /\ Len(heap) < limit
                       /\ heap' = Append(heap, connector)
                       /\ nextShapeId' = PostIncrement(nextShapeId)
                       /\ shapes' = Append(shapes, Len(heap) + 1)
                       /\ drawingConnection' = FALSE
                       /\ startConnectionPoint' = NoConnectionPoint
                       /\ dotPreview' = DOTPreviewText(heap', shapes')
                       /\ UNCHANGED <<isDrawing, isDragging>>
               ELSE /\ drawingConnection' = FALSE
                    /\ startConnectionPoint' = NoConnectionPoint
                    /\ isDragging' = FALSE
                    /\ UNCHANGED <<heap, nextShapeId, shapes, isDrawing,
                                   dotPreview>>
       ELSE IF isDrawing
       THEN LET made == Drawn(x, y, answer)
            IN /\ made # << >> => Len(heap) < limit
               /\ heap' = heap \o made
               /\ nextShapeId' = IF made # << >>
                                 THEN PostIncrement(nextShapeId)
                                 ELSE nextShapeId
               /\ shapes' = IF made # << >>
                            THEN Append(shapes, Len(heap) + 1)
                            ELSE shapes
               /\ isDrawing' = FALSE
               /\ dotPreview' = DOTPreviewText(heap', shapes')
               /\ isDragging' = FALSE
               /\ UNCHANGED <<drawingConnection, startConnectionPoint>>
       ELSE /\ isDragging' = FALSE
            /\ UNCHANGED <<heap, nextShapeId, shapes, isDrawing,
                           drawingConnection, startConnectionPoint,
                           dotPreview>>
    /\ UNCHANGED <<currentTool, selectedShape, startX, startY, dragOffsetX,
                   dragOffsetY, budgets, probe, client>>

\* handleMouseUp in the sessions of Spec.
MouseUp(x, y, answer) == MouseUpWithin(x, y, answer, MaxShapes)

\* handleDoubleClick; answer is what prompt() returns.
DoubleClick(answer) ==
    /\ edits < MaxEdits
    /\ selectedShape # Null
    /\ HasAnchors(heap[selectedShape])
    /\ answer.ok
    /\ heap' = [heap EXCEPT ![selectedShape].text = answer.text]
    /\ edits' = edits + 1
    /\ UNCHANGED <<currentTool, shapes, selectedShape, isDragging, isDrawing,
                   drawingConnection, startX, startY, dragOffsetX,
                   dragOffsetY, nextShapeId, startConnectionPoint, dotPreview,
                   toolClicks, dragMoves, probe, client>>

\* The writes the property editor built by updatePropertyEditor offers for
\* a shape: <<property, value>>.
EditorWrites(s) ==
    (IF s.type # "line" /\ s.type # "arrow"
     THEN {<<"text", v>> : v \in EditorLabels} ELSE {})
    \cup (IF s.type # "text"
          THEN {<<"strokeColor", v>> : v \in EditorColors}
               \cup {<<"lineWidth", v>> : v \in EditorWidths}
          ELSE {})
    \cup (IF s.type = "circle" \/ s.type = "rectangle"
          THEN {<<"fillColor", v>> : v \in EditorColors} ELSE {})

\* The writes the panel can deliver: those of the inputs built for the
\* selected shape; with nothing selected the panel has no input, and only a
\* write that was under way when the selection was cleared arrives.
PanelWrites ==
    IF selectedShape # Null THEN EditorWrites(heap[selectedShape])
    ELSE {<<"text", v>> : v \in EditorLabels}

\* An updateShapeProperty without its updateDOTPreview() call;
\* EditWritesOneProperty tells the two apart.
UpdateShapePropertyWithoutPreview(property, value) ==
    /\ edits < MaxEdits
    /\ edits' = edits + 1
    /\ IF selectedShape # Null
       THEN heap' = [heap EXCEPT ![selectedShape][property] = value]
       ELSE UNCHANGED heap
    /\ UNCHANGED <<currentTool, shapes, selectedShape, isDragging, isDrawing,
                   drawingConnection, startX, startY, dragOffsetX,
                   dragOffsetY, nextShapeId, startConnectionPoint, dotPreview,
                   toolClicks, dragMoves, probe, client>>

\* updateShapeProperty(property, value); `edits` counts the calls, also
\* those that find nothing selected.
UpdateShapeProperty(property, value) ==
    /\ edits < MaxEdits
    /\ edits' = edits + 1
    /\ IF selectedShape # Null
       THEN /\ heap' = [heap EXCEPT ![selectedShape][property] = value]
            /\ dotPreview' = DOTPreviewText(heap', shapes)
       ELSE UNCHANGED <<heap, dotPreview>>
    /\ UNCHANGED <<currentTool, shapes, selectedShape, isDragging, isDrawing,
                   drawingConnection, startX, startY, dragOffsetX,
                   dragOffsetY, nextShapeId, startConnectionPoint,
                   toolClicks, dragMoves, probe, client>>

\* deleteSelectedShape (the editor's Delete Shape button)
DeleteSelectedShape ==
    /\ selectedShape # Null
    /\ shapes' = WithoutSelected(shapes, selectedShape)
    /\ selectedShape' = Null
    /\ dotPreview' = DOTPreviewText(heap, shapes')
    /\ UNCHANGED <<currentTool, heap, isDragging, isDrawing,
                   drawingConnection, startX, startY, dragOffsetX,
                   dragOffsetY, nextShapeId, startConnectionPoint, budgets,
                   probe, client>>

\* A keydown handler without `selectedShape = null`; SelectionIsListed
\* tells the two apart.
KeydownBackspaceKeepsSelection ==
    /\ selectedShape # Null
    /\ shapes' = WithoutSelected(shapes, selectedShape)
    /\ UNCHANGED <<currentTool, heap, selectedShape, isDragging, isDrawing,
                   drawingConnection, startX, startY, dragOffsetX,
                   dragOffsetY, nextShapeId, startConnectionPoint, dotPreview,
                   budgets, probe, client>>

\* The keydown handler, for the Backspace key.
KeydownBackspace ==
    /\ selectedShape # Null
    /\ shapes' = WithoutSelected(shapes, selectedShape)
    /\ selectedShape' = Null
    /\ UNCHANGED <<currentTool, heap, isDragging, isDrawing,
                   drawingConnection, startX, startY, dragOffsetX,
                   dragOffsetY, nextShapeId, startConnectionPoint, dotPreview,
                   budgets, probe, client>>

\* A clearCanvas that also restarts the id counter; IdsNeverReused tells
\* the two apart.
ClearCanvasResetsIds ==
    /\ shapes' = << >>
    /\ selectedShape' = Null
    /\ nextShapeId' = 1
    /\ dotPreview' = DOTPreviewText(heap, shapes')
    /\ UNCHANGED <<currentTool, heap, isDragging, isDrawing,
                   drawingConnection, startX, startY, dragOffsetX,
                   dragOffsetY, startConnectionPoint, budgets, probe, client>>

\* clearCanvas, once confirm() is answered with OK.
ClearCanvas ==
    /\ shapes' = << >>
    /\ selectedShape' = Null
    /\ dotPreview' = DOTPreviewText(heap, shapes')
    /\ UNCHANGED <<currentTool, heap, isDragging, isDrawing,
                   drawingConnection, startX, startY, dragOffsetX,
                   dragOffsetY, nextShapeId, startConnectionPoint, budgets,
                   probe, client>>

\* An updateDOTPreview that keeps the filtered node list as the shape list
\* (`shapes = shapes.filter(...)`); SerializationReadOnly tells the two
\* apart.
UpdateDOTPreviewFiltersInPlace ==
    /\ shapes' = FilterByType(heap, shapes, {"circle", "rectangle"})
    /\ dotPreview' = DOTPreviewText(heap, shapes)
    /\ UNCHANGED <<currentTool, heap, selectedShape, isDragging,
                   isDrawing, drawingConnection, startX, startY, dragOffsetX,
                   dragOffsetY, nextShapeId, startConnectionPoint, budgets,
                   probe, client>>

\* updateDOTPreview called on its own.
UpdateDOTPreview ==
    /\ UNCHANGED <<currentTool, heap, shapes, selectedShape, isDragging,
                   isDrawing, drawingConnection, startX, startY, dragOffsetX,
                   dragOffsetY, nextShapeId, startConnectionPoint, budgets,
                   probe, client>>
    /\ dotPreview' = DOTPreviewText(heap, shapes)

\* prompt() is called only by a pointer-up that ends a text-tool gesture.
NoPrompt == [ok |-> FALSE, text |-> ""]
Prompts ==
    IF ~drawingConnection /\ isDrawing /\ currentTool = "text"
    THEN PromptAnswers ELSE {NoPrompt}

\* The editor without its property panel: tool buttons, the canvas'
\* pointer events, the two ways to delete, clearing, and the preview.
Next ==
    \/ \E tool \in Tools : SelectTool(tool)
    \/ \E p \in Points, mw \in MeasuredWidths : MouseDown(p[1], p[2], mw)
    \/ \E p \in Points : MouseMove(p[1], p[2])
    \/ \E p \in Points, answer \in Prompts : MouseUp(p[1], p[2], answer)
    \/ DeleteSelectedShape
    \/ KeydownBackspace
    \/ ClearCanvas
    \/ UpdateDOTPreview

Spec == Init /\ [][Next]_vars

\* The editor with its property panel and the double-click relabel, over
\* sessions of at most MaxEditorShapes constructions.
MaxEditorShapes == 2

NextEditor ==
    \/ \E tool \in Tools : SelectTool(tool)
    \/ \E p \in Points, mw \in MeasuredWidths : MouseDown(p[1], p[2], mw)
    \/ \E p \in Points : MouseMove(p[1], p[2])
    \/ \E p \in Points, answer \in Prompts :
          MouseUp(p[1], p[2], answer) /\ Len(heap') <= MaxEditorShapes
    \/ \E answer \in PromptAnswers : DoubleClick(answer)
    \/ \E w \in PanelWrites : UpdateShapeProperty(w[1], w[2])
    \/ DeleteSelectedShape
    \/ KeydownBackspace
    \/ ClearCanvas

SpecEditor == Init /\ [][NextEditor]_vars

\* Sessions that only draw: nodes and connectors, up to MaxConnectShapes
\* constructions, which is what it takes to release a connection over two
\* nodes besides its source.
MaxConnectShapes == 4

NextConnect ==
    \/ \E tool \in {"rectangle", "circle", "line", "arrow"} : SelectTool(tool)
    \/ \E p \in Points, mw \in MeasuredWidths : MouseDown(p[1], p[2], mw)
    \/ \E p \in Points :
          MouseUpWithin(p[1], p[2], NoPrompt, MaxConnectShapes)

SpecConnect == Init /\ [][NextConnect]_vars

\* ------------------------------------------- the comparison client's events
\* Everything of the editor, which the client never touches.
editor == <<currentTool, heap, shapes, selectedShape, isDragging, isDrawing,
            drawingConnection, startX, startY, dragOffsetX, dragOffsetY,
            nextShapeId, startConnectionPoint, dotPreview, budgets, probe>>

\* The catch and finally blocks of the click handler, for an error with
\* this message: console.error(err), setError(...), setLoading(false).
Caught(c, message) ==
    SetLoading(SetError([c EXCEPT !.console = Append(@, message)],
                        IF message # NoText THEN message
                        ELSE FallbackMessage), FALSE)

\* The waiting handlers without the i-th.
WithoutHandler(c, i) ==
    [c EXCEPT !.pending =
        SubSeq(c.pending, 1, i - 1) \o SubSeq(c.pending, i + 1, Len(c.pending))]

\* A click handler that does not call setLoading(true); CheckButtonCycle
\* tells the two apart.
ClickCheckWithoutLoading(source, diagram) ==
    /\ ~client.disabled
    /\ client.clicks < MaxChecks
    /\ LET started ==
               [RenderMistakes(SetError(client, NoText),
                               [kind |-> "array", items |-> << >>]).page
                   EXCEPT !.clicks = @ + 1]
       IN client' =
             IF diagram = "cyclic"
             THEN Caught(started, <<"Converting circular structure to JSON">>)
             ELSE [started EXCEPT !.pending =
                      Append(@, [pc |-> "fetch", source |-> source,
                                 diagram |-> diagram])]
    /\ UNCHANGED editor

\* A click on the check button, up to the handler's first await.  The
\* browser dispatches no click on a disabled button.  JSON.stringify of a
\* cyclic diagram throws inside the try block before fetch is called.
ClickCheck(source, diagram) ==
    /\ ~client.disabled
    /\ client.clicks < MaxChecks
    /\ LET started ==
               [RenderMistakes(SetLoading(SetError(client, NoText), TRUE),
                               [kind |-> "array", items |-> << >>]).page
                   EXCEPT !.clicks = @ + 1]
       IN client' =
             IF diagram = "cyclic"
             THEN Caught(started, <<"Converting circular structure to JSON">>)
             ELSE [started EXCEPT !.pending =
                      Append(@, [pc |-> "fetch", source |-> source,
                                 diagram |-> diagram])]
    /\ UNCHANGED editor

\* The promise of fetch() settles for the i-th waiting handler, which runs
\* on to `await res.json()` or to the end of its finally block.
FetchSettles(i, outcome) ==
    /\ i \in 1..Len(client.pending)
    /\ client.pending[i].pc = "fetch"
    /\ client' =
          IF outcome.kind = "reject"
          THEN Caught(WithoutHandler(client, i), outcome.message)
          ELSE IF ~ResponseOk(outcome.status)
          THEN Caught(WithoutHandler(client, i),
                      <<"Server error: ", outcome.status>>)
          ELSE [client EXCEPT !.pending[i].pc = "json"]
    /\ UNCHANGED editor

\* The promise of res.json() settles for the i-th waiting handler, which
\* runs to the end of its finally block.
JsonSettles(i, outcome) ==
    /\ i \in 1..Len(client.pending)
    /\ client.pending[i].pc = "json"
    /\ client' =
          IF outcome.kind = "reject"
          THEN Caught(WithoutHandler(client, i), <<"Unexpected token">>)
          ELSE IF outcome.kind = "null"
          THEN Caught(WithoutHandler(client, i),
                      <<"Cannot read properties of null">>)
          ELSE LET rendered ==
                       RenderMistakes(WithoutHandler(client, i),
                           IF outcome.kind = "missing"
                           THEN [kind |-> "array", items |-> << >>]
                           ELSE outcome)
               IN IF rendered.thrown # NoText
                  THEN Caught(rendered.page, rendered.thrown)
                  ELSE SetLoading(rendered.page, FALSE)
    /\ UNCHANGED editor

NextClient ==
    \/ \E source \in SourceTexts, diagram \in StudentDiagrams :
          ClickCheck(source, diagram)
    \/ \E i \in 1..MaxChecks, outcome \in FetchOutcomes :
          FetchSettles(i, outcome)
    \/ \E i \in 1..MaxChecks, outcome \in JsonOutcomes :
          JsonSettles(i, outcome)

\* Every request has an outcome: a promise that is waited on settles.
RequestsSettle ==
    /\ WF_vars(\E i \in 1..MaxChecks, outcome \in FetchOutcomes :
                  FetchSettles(i, outcome))
    /\ WF_vars(\E i \in 1..MaxChecks, outcome \in JsonOutcomes :
                  JsonSettles(i, outcome))

SpecClient == Init /\ [][NextClient]_vars /\ RequestsSettle

\* ---------------------------------------------------------------- sanity
\* Every halving the program performs is exact: the boxes of all shapes
\* with anchors have even width and height.
HalvesExact ==
    \A a \in 1..Len(heap) :
        HasAnchors(heap[a]) => heap[a].width % 2 = 0 /\ heap[a].height % 2 = 0

\* ------------------------------------------- getConnectionPoints on its own
\* The shapes the method is applied to: every kind the editor's tools make,
\* over the probe boxes.
ProbeShapes ==
    {NewShape(1, type, x, y, width, height, "") :
        type \in {"rectangle", "circle", "line", "arrow", "text"},
        x \in ProbeOrigins, y \in {0, MaxProbe},
        width \in ProbeWidths, height \in ProbeHeights}

InitAnchors ==
    /\ InitEditor
    /\ probe \in {[shape |-> s, done |-> FALSE, out |-> << >>] :
                    s \in ProbeShapes}

\* shape.getConnectionPoints()
ApplyGetConnectionPoints ==
    /\ ~probe.done
    /\ probe' = [probe EXCEPT !.done = TRUE,
                              !.out = GetConnectionPoints(probe.shape)]
    /\ UNCHANGED <<currentTool, heap, shapes, selectedShape, isDragging,
                   isDrawing, drawingConnection, startX, startY, dragOffsetX,
                   dragOffsetY, nextShapeId, startConnectionPoint, dotPreview,
                   budgets, client>>

NextAnchors == ApplyGetConnectionPoints

SpecAnchors == InitAnchors /\ [][NextAnchors]_vars

\* ------------------------------------------- findConnectionPoint on its own
\* The shapes the method is asked about: every kind, at the origin, with
\* sides a drawn node can have (above the 5 pixels a commit needs), small
\* enough for several anchors to be in range of one pointer, and the
\* 100 x 40 box, most of which is in range of no anchor.
FindAnchorShapes ==
    {NewShape(1, type, 0, 0, width, height, "") :
        type \in {"rectangle", "circle", "line", "arrow", "text"},
        width \in {2 * k + 6 : k \in 0..MaxProbe} \cup {100},
        height \in {2 * k + 6 : k \in 0..MaxProbe} \cup {40}}

\* The pointer positions: a grid around the origin that holds anchors of
\* the small boxes ((3, 0), (0, 3), (3, 6), (6, 3) of the 6 x 6 box).
ProbePointers == {<<3 * i, 3 * j>> : i \in ProbeOrigins, j \in ProbeOrigins}

InitFindAnchor ==
    /\ InitEditor
    /\ probe \in {[shape |-> s, at |-> p, done |-> FALSE, out |-> NullPoint] :
                    s \in FindAnchorShapes, p \in ProbePointers}

\* shape.findConnectionPoint(x, y)
ApplyFindConnectionPoint ==
    /\ ~probe.done
    /\ probe' = [probe EXCEPT
                    !.done = TRUE,
                    !.out = FindConnectionPoint(probe.shape, probe.at[1],
                                                probe.at[2])]
    /\ UNCHANGED <<currentTool, heap, shapes, selectedShape, isDragging,
                   isDrawing, drawingConnection, startX, startY, dragOffsetX,
                   dragOffsetY, nextShapeId, startConnectionPoint, dotPreview,
                   budgets, client>>

NextFindAnchor == ApplyFindConnectionPoint

SpecFindAnchor == InitFindAnchor /\ [][NextFindAnchor]_vars

\* ------------------------------------------------ the serializers on their own
\* Shape lists the editor can hold, over three objects: a node the panel
\* may have relabelled, recoloured and widened; a second node or a text;
\* a connector, recoloured or not, bound from the first to the second when
\* both are nodes, or free.  The list holds any of them, in creation order
\* (deletions remove the others).
SerializerHeaps ==
    {<<[NewShape(1, type1, 0, 0, Grid, Grid, text1) EXCEPT
            !.fillColor = fill1, !.lineWidth = width1],
       NewShape(2, type2, 0, 0, IF type2 = "text" THEN 0 ELSE Grid,
                IF type2 = "text" THEN 0 ELSE Grid,
                IF type2 = "text" THEN "A" ELSE ""),
       IF bound /\ type2 # "text"
       THEN [NewShape(3, type3, 0, 0, 0, 0, "") EXCEPT
                !.strokeColor = stroke3, !.startNode = 1,
                !.startPoint = "north", !.endNode = 2, !.endPoint = "south"]
       ELSE [NewShape(3, type3, 0, 0, Grid, Grid, "") EXCEPT
                !.strokeColor = stroke3]>> :
        type1 \in {"rectangle", "circle"}, text1 \in EditorLabels,
        fill1 \in {DefaultFill} \cup EditorColors,
        width1 \in {DefaultLineWidth} \cup EditorWidths,
        type2 \in {"rectangle", "text"}, type3 \in {"line", "arrow"},
        stroke3 \in {DefaultStroke} \cup EditorColors,
        bound \in BOOLEAN}

SerializerLists ==
    {SelectSeq(<<1, 2, 3>>, LAMBDA r : r \in keep) : keep \in SUBSET {1, 2, 3}}

InitSerializers ==
    /\ currentTool = "select"
    /\ heap \in SerializerHeaps
    /\ shapes \in SerializerLists
    /\ selectedShape = Null
    /\ isDragging = FALSE
    /\ isDrawing = FALSE
    /\ drawingConnection = FALSE
    /\ startX = 0
    /\ startY = 0
    /\ dragOffsetX = Undefined
    /\ dragOffsetY = Undefined
    /\ nextShapeId = 4
    /\ startConnectionPoint = NoConnectionPoint
    /\ dotPreview = InitialPreview
    /\ toolClicks = 0
    /\ dragMoves = 0
    /\ edits = 0
    /\ client = ClientLoaded
    /\ probe = [done |-> FALSE, preview |-> << >>, exported |-> << >>]

\* updateDOTPreview() and exportToDOT() on the same shape list.
ApplySerializers ==
    /\ ~probe.done
    /\ probe' = [done |-> TRUE,
                 preview |-> DOTPreviewText(heap, shapes),
                 exported |-> ExportToDOTText(heap, shapes)]
    /\ dotPreview' = DOTPreviewText(heap, shapes)
    /\ UNCHANGED <<currentTool, heap, shapes, selectedShape, isDragging,
                   isDrawing, drawingConnection, startX, startY, dragOffsetX,
                   dragOffsetY, nextShapeId, startConnectionPoint, budgets,
                   client>>

NextSerializers == ApplySerializers

SpecSerializers == InitSerializers /\ [][NextSerializers]_vars

\* ------------------------------------------------------------- properties
\* The objects in the shape list.
Listed == {shapes[i] : i \in 1..Len(shapes)}
IsNode(s) == s.type = "rectangle" \/ s.type = "circle"
IsConnector(s) == s.type = "line" \/ s.type = "arrow"
FullyBound(s) == s.startNode # Null /\ s.endNode # Null
\* The lines of a document of one kind, by position.
LinesOfKind(doc, kind) == {i \in 1..Len(doc) : doc[i].kind = kind}

\* C1: ids are handed out in strictly increasing order and never twice.
\* `heap` keeps every object ever constructed, in order of construction,
\* deleted and cleared ones included: each object's id is greater than the
\* id of every object constructed before it, and the counter is beyond all
\* of them (so the next id is new too).
IdsNeverReused ==
    /\ \A a, b \in 1..Len(heap) : a < b => heap[a].id < heap[b].id
    /\ \A a \in 1..Len(heap) : heap[a].id < nextShapeId

\* Three shapes have been created, an earlier one is gone from the list
\* and a later one is in it.
IdsNeverReusedWitness ==
    /\ Len(heap) >= 3
    /\ \E a, b \in 1..Len(heap) : a < b /\ a \notin Listed /\ b \in Listed

\* C2: every node reference of a connector in the shape list, when set,
\* refers to a shape that is in the shape list.
ConnectorsReferenceListedShapes ==
    \A c \in Listed :
        IsConnector(heap[c]) =>
            /\ heap[c].startNode # Null => heap[c].startNode \in Listed
            /\ heap[c].endNode # Null => heap[c].endNode \in Listed

\* C3: a deletion (button or Backspace) of a node that a listed connector
\* references keeps the connector in the list, clears both its node
\* references and stores the coordinates its ends resolved to before the
\* deletion as its literal start and end.
CascadeOnDelete ==
    [][(DeleteSelectedShape \/ KeydownBackspace) =>
        \A c \in Listed :
            (/\ IsNode(heap[selectedShape])
             /\ IsConnector(heap[c])
             /\ (heap[c].startNode = selectedShape
                 \/ heap[c].endNode = selectedShape))
            => /\ \E i \in 1..Len(shapes') : shapes'[i] = c
               /\ heap'[c].startNode = Null
               /\ heap'[c].endNode = Null
               /\ <<heap'[c].x, heap'[c].y>> = ResolvedStart(heap, heap[c])
               /\ <<heap'[c].x + heap'[c].width,
                    heap'[c].y + heap'[c].height>> = ResolvedEnd(heap, heap[c])
      ]_vars

\* C4: in every step that moves the origin of a node, each connector whose
\* end is bound to an anchor of that node keeps all its stored fields, and
\* its resolved end moves by exactly the node's displacement.
LiveResolution ==
    [][\A c \in 1..Len(heap) :
          LET s == heap[c]
              a == s.endNode
          IN (/\ IsConnector(s)
              /\ s.endNode # Null
              /\ s.endPoint # NullPoint
              /\ (heap'[a].x # heap[a].x \/ heap'[a].y # heap[a].y))
             => /\ heap'[c] = s
                /\ ResolvedEnd(heap', heap'[c])[1] - ResolvedEnd(heap, s)[1]
                     = heap'[a].x - heap[a].x
                /\ ResolvedEnd(heap', heap'[c])[2] - ResolvedEnd(heap, s)[2]
                     = heap'[a].y - heap[a].y
      ]_vars

\* The selected node has been dragged off the place where it was drawn (a
\* drawn box has no negative origin here) and a listed connector has its
\* end bound to it.
LiveResolutionWitness ==
    /\ dragMoves > 0
    /\ isDragging
    /\ selectedShape # Null
    /\ IsNode(heap[selectedShape])
    /\ heap[selectedShape].x < 0
    /\ \E c \in Listed :
          /\ IsConnector(heap[c])
          /\ heap[c].endNode = selectedShape
          /\ heap[c].endPoint # NullPoint

\* Every node name in an edge line of a document is declared by a node line
\* of the same document.
EdgeNamesDeclared(doc) ==
    \A i \in LinesOfKind(doc, "edge") :
        /\ \E j \in LinesOfKind(doc, "node") : doc[j].name = doc[i].from
        /\ \E j \in LinesOfKind(doc, "node") : doc[j].name = doc[i].to

\* C5: when every shape created so far is of one of the five kinds, every
\* node name that an edge line of the preview text or of the exported text
\* mentions has a node declaration line in that text.
EdgesNameDeclaredNodes ==
    (\A a \in 1..Len(heap) : IsNode(heap[a]) \/ ~HasAnchors(heap[a]))
    => /\ EdgeNamesDeclared(DOTPreviewText(heap, shapes))
       /\ EdgeNamesDeclared(ExportToDOTText(heap, shapes))

\* C6: the serialized document has exactly one edge line per listed
\* connector with both ends bound, so a listed connector with an unbound
\* end contributes no edge line.
UnboundConnectorsOmitted ==
    LET bound == {i \in 1..Len(shapes) :
                     IsConnector(heap[shapes[i]])
                     /\ FullyBound(heap[shapes[i]])}
    IN /\ Cardinality(LinesOfKind(DOTPreviewText(heap, shapes), "edge"))
            = Cardinality(bound)
       /\ Cardinality(LinesOfKind(ExportToDOTText(heap, shapes), "edge"))
            = Cardinality(bound)

\* A free connector is in the shape list, and the preview shows the
\* document of that list: it declares a node and has no edge line.
UnboundConnectorsOmittedWitness ==
    /\ \E c \in Listed : IsConnector(heap[c]) /\ ~FullyBound(heap[c])
    /\ dotPreview = DOTPreviewText(heap, shapes)
    /\ LinesOfKind(dotPreview, "node") # {}
    /\ LinesOfKind(dotPreview, "edge") = {}

SelectPicksLastCreated ==
    [][\A p \in Points, mw \in MeasuredWidths :
          (/\ currentTool = "select"
           /\ ContainingPositions(p[1], p[2], mw) # {}
           /\ MouseDown(p[1], p[2], mw))
          => /\ \E i \in ContainingPositions(p[1], p[2], mw) :
                   shapes[i] = selectedShape'
             /\ \A i \in ContainingPositions(p[1], p[2], mw) :
                   /\ heap[shapes[i]].id <= heap[selectedShape'].id
                   /\ shapes[i] <= selectedShape'
      ]_vars

\* The selection was taken at a point (the selected shape's origin plus the
\* drag offset) that an older listed shape contains as well.
SelectPicksLastCreatedWitness ==
    /\ currentTool = "select"
    /\ isDragging
    /\ selectedShape \in Listed
    /\ \E c \in Listed, mw \in MeasuredWidths :
          /\ heap[c].id < heap[selectedShape].id
          /\ Contains(heap, heap[c], heap[selectedShape].x + dragOffsetX,
                      heap[selectedShape].y + dragOffsetY, mw)
          /\ Contains(heap, heap[selectedShape],
                      heap[selectedShape].x + dragOffsetX,
                      heap[selectedShape].y + dragOffsetY, mw)

\* C9: a pointer-up at (x, y) that ends a rectangle- or circle-tool draw
\* gesture begun at (startX, startY) appends one node with the box
\* (min(startX, x), min(startY, y), |x - startX|, |y - startY|), of positive
\* width and height, when |x - startX| > 5 and |y - startY| > 5, and
\* otherwise leaves the shape list and the id counter as they are.
NodeCommitThreshold ==
    [][\A p \in Points :
          (/\ ~drawingConnection
           /\ isDrawing
           /\ currentTool \in {"rectangle", "circle"}
           /\ MouseUp(p[1], p[2], NoPrompt))
          => LET dx == p[1] - startX
                 dy == p[2] - startY
             IN IF (dx > 5 \/ dx < -5) /\ (dy > 5 \/ dy < -5)
                THEN /\ shapes' = Append(shapes, Len(heap'))
                     /\ Len(heap') = Len(heap) + 1
                     /\ LET node == heap'[Len(heap')]
                        IN /\ node.type = currentTool
                           /\ node.x = (IF startX < p[1] THEN startX ELSE p[1])
                           /\ node.y = (IF startY < p[2] THEN startY ELSE p[2])
                           /\ node.width = (IF dx < 0 THEN -dx ELSE dx)
                           /\ node.height = (IF dy < 0 THEN -dy ELSE dy)
                           /\ node.width > 0
                           /\ node.height > 0
                ELSE /\ shapes' = shapes
                     /\ nextShapeId' = nextShapeId
      ]_vars

\* A draw gesture has just committed a node: it is the last of the list,
\* larger than the threshold both ways, and no gesture is under way.
NodeCommitThresholdWitness ==
    /\ shapes # << >>
    /\ IsNode(heap[shapes[Len(shapes)]])
    /\ heap[shapes[Len(shapes)]].width > 5
    /\ heap[shapes[Len(shapes)]].height > 5
    /\ ~isDrawing
    /\ ~isDragging
    /\ currentTool \in {"rectangle", "circle"}
    /\ dotPreview = DOTPreviewText(heap, shapes)

\* C10: getConnectionPoints of a rectangle or circle with box (x, y, w, h)
\* is exactly north (x + w/2, y), south (x + w/2, y + h), east
\* (x + w, y + h/2) and west (x, y + h/2), the same for both kinds; a line,
\* an arrow and a text have none.
AnchorsOfBox ==
    probe.done =>
        LET s == probe.shape
            out == probe.out
        IN IF IsNode(s)
           THEN /\ DOMAIN out = {"north", "south", "east", "west"}
                /\ 2 * out.north[1] = 2 * s.x + s.width
                /\ out.north[2] = s.y
                /\ 2 * out.south[1] = 2 * s.x + s.width
                /\ out.south[2] = s.y + s.height
                /\ out.east[1] = s.x + s.width
                /\ 2 * out.east[2] = 2 * s.y + s.height
                /\ out.west[1] = s.x
                /\ 2 * out.west[2] = 2 * s.y + s.height
                /\ out = GetConnectionPoints(
                       [s EXCEPT !.type = IF s.type = "circle"
                                          THEN "rectangle" ELSE "circle"])
           ELSE out = << >>

\* The method has been applied to a circle whose box is not a square (the
\* box of the documentation's example).
AnchorsOfBoxWitness ==
    /\ probe.done
    /\ probe.shape.type = "circle"
    /\ probe.shape.width = 100
    /\ probe.shape.height = 40
    /\ probe.out.east = <<probe.shape.x + 100, probe.shape.y + 20>>

\* The squared distance from a point to the anchor `direction` of a node.
AnchorDistSq(s, direction, p) ==
    DistSq(p[1], p[2], GetConnectionPoints(s)[direction][1],
           GetConnectionPoints(s)[direction][2])

\* C11: findConnectionPoint(x, y) of a rectangle or circle returns none
\* when no anchor is at a distance below 10 of (x, y), and otherwise the
\* name of an anchor that is at a distance below 10 and that no other
\* anchor is nearer than.
FindsNearestAnchor ==
    (probe.done /\ IsNode(probe.shape)) =>
        LET s == probe.shape
            near == {d \in {"north", "south", "east", "west"} :
                        AnchorDistSq(s, d, probe.at) < 10 * 10}
        IN IF near = {} THEN probe.out = NullPoint
           ELSE /\ probe.out \in near
                /\ \A d \in near : AnchorDistSq(s, probe.out, probe.at)
                                      <= AnchorDistSq(s, d, probe.at)

\* The listed shapes with an anchor in range of a point.
InAnchorRange(p) ==
    {c \in Listed : /\ HasAnchors(heap[c])
                    /\ FindConnectionPoint(heap[c], p[1], p[2]) # NullPoint}

\* C12: a pointer-up at p while a connection is under way (drawingConnection
\* set) appends exactly one shape with start = the recorded source node and
\* anchor and end = a node other than the source with an anchor in range of
\* p and that anchor, when there is such a node; otherwise (also when only
\* the source is in range) it constructs nothing, leaves the list alone and
\* ends with no gesture flag set.
ConnectReleaseCommits ==
    [][\A p \in Points :
          (/\ drawingConnection
           /\ MouseUp(p[1], p[2], NoPrompt))
          => LET others == InAnchorRange(p) \ {startConnectionPoint.shape}
             IN IF others # {}
                THEN /\ Len(heap') = Len(heap) + 1
                     /\ shapes' = Append(shapes, Len(heap'))
                     /\ LET made == heap'[Len(heap')]
                        IN /\ made.startNode = startConnectionPoint.shape
                           /\ made.startPoint = startConnectionPoint.point
                           /\ made.startPoint # NullPoint
                           /\ made.endNode \in others
                           /\ made.endPoint # NullPoint
                           /\ made.endPoint =
                                FindConnectionPoint(heap[made.endNode],
                                                    p[1], p[2])
                     /\ ~drawingConnection'
                ELSE /\ heap' = heap
                     /\ shapes' = shapes
                     /\ nextShapeId' = nextShapeId
                     /\ ~isDragging' /\ ~isDrawing' /\ ~drawingConnection'
      ]_vars

\* C13: a pointer-down at p with the line or arrow tool starts a connection
\* from the most recently created listed node that has an anchor in range
\* of p, recording that node and anchor and not starting a drawing; only
\* when no node has an anchor in range it starts a drawing whose start is
\* p, and no connection.
AnchorsBeforeFreeDraw ==
    [][\A p \in Points, mw \in MeasuredWidths :
          (/\ currentTool \in {"line", "arrow"}
           /\ MouseDown(p[1], p[2], mw))
          => IF InAnchorRange(p) # {}
             THEN /\ drawingConnection'
                  /\ startConnectionPoint'.shape \in InAnchorRange(p)
                  /\ \A c \in InAnchorRange(p) :
                        c <= startConnectionPoint'.shape
                  /\ startConnectionPoint'.point =
                        FindConnectionPoint(
                            heap[startConnectionPoint'.shape], p[1], p[2])
                  /\ isDrawing' = isDrawing
             ELSE /\ isDrawing'
                  /\ startX' = p[1]
                  /\ startY' = p[2]
                  /\ drawingConnection' = drawingConnection
      ]_vars

\* A connection is under way from a listed node, no drawing is, and an
\* older listed node has an anchor in range of the same place.
AnchorsBeforeFreeDrawWitness ==
    /\ drawingConnection
    /\ ~isDrawing
    /\ currentTool \in {"line", "arrow"}
    /\ startConnectionPoint.shape \in Listed
    /\ \E c \in InAnchorRange(<<startX, startY>>) :
          c < startConnectionPoint.shape

\* No gesture is under way.
Idle == ~isDragging /\ ~isDrawing /\ ~drawingConnection
\* A connector with no node reference.
IsFree(s) == IsConnector(s) /\ s.startNode = Null /\ s.endNode = Null

\* C14: a pointer-down at p with the select tool and no gesture under way
\* selects a listed shape that contains p, starts dragging it and records
\* p minus the shape's origin as the drag offset, when some listed shape
\* contains p; otherwise it clears the selection and no gesture is under
\* way.  Either way the shape list and the shapes are as before.
SelectStartsDrag ==
    [][\A p \in Points, mw \in MeasuredWidths :
          (/\ currentTool = "select"
           /\ Idle
           /\ MouseDown(p[1], p[2], mw))
          => LET hits == {c \in Listed :
                             Contains(heap, heap[c], p[1], p[2], mw)}
             IN /\ IF hits # {}
                   THEN /\ selectedShape' \in hits
                        /\ isDragging'
                        /\ ~isDrawing'
                        /\ ~drawingConnection'
                        /\ dragOffsetX' = p[1] - heap[selectedShape'].x
                        /\ dragOffsetY' = p[2] - heap[selectedShape'].y
                   ELSE /\ selectedShape' = Null
                        /\ ~isDragging' /\ ~isDrawing' /\ ~drawingConnection'
                /\ shapes' = shapes
                /\ heap' = heap
      ]_vars

\* A free connector has been picked with the select tool: it is selected
\* and being dragged, with the offset of a pointer position it contains
\* from its literal start.
SelectStartsDragWitness ==
    /\ currentTool = "select"
    /\ isDragging /\ ~isDrawing /\ ~drawingConnection
    /\ selectedShape \in Listed
    /\ IsFree(heap[selectedShape])
    /\ \E p \in Points, mw \in MeasuredWidths :
          /\ Contains(heap, heap[selectedShape], p[1], p[2], mw)
          /\ dragOffsetX = p[1] - heap[selectedShape].x
          /\ dragOffsetY = p[2] - heap[selectedShape].y

\* C15: a pointer-move to p while a selected free connector is dragged
\* puts its literal start at p minus the drag offset and leaves its extent
\* (end minus start) as it was.
FreeConnectorDragTranslates ==
    [][\A p \in Points :
          (/\ isDragging
           /\ selectedShape # Null
           /\ IsFree(heap[selectedShape])
           /\ MouseMove(p[1], p[2]))
          => /\ heap'[selectedShape].x = p[1] - dragOffsetX
             /\ heap'[selectedShape].y = p[2] - dragOffsetY
             /\ heap'[selectedShape].width = heap[selectedShape].width
             /\ heap'[selectedShape].height = heap[selectedShape].height
      ]_vars

\* C16: a pointer-move while nothing is being dragged (a drawing or a
\* connection under way, or no gesture at all) changes neither the shape
\* list, nor any shape, nor the id counter.
MoveWithoutDragKeepsStore ==
    [][\A p \in Points :
          (~isDragging /\ MouseMove(p[1], p[2]))
          => UNCHANGED <<shapes, heap, nextShapeId>>
      ]_vars

\* A shape is selected and listed while a drawing is under way and nothing
\* is being dragged: a pointer-move here finds a selection and no drag.
MoveWithoutDragKeepsStoreWitness ==
    /\ ~isDragging
    /\ isDrawing
    /\ selectedShape \in Listed
    /\ HasAnchors(heap[selectedShape])
    /\ dragMoves < MaxDragMoves

\* C17: every pointer-up ends with no gesture flag set.
PointerUpEndsIdle ==
    [][(\E p \in Points, answer \in PromptAnswers \cup {NoPrompt} :
            MouseUp(p[1], p[2], answer))
       => (~isDragging' /\ ~isDrawing' /\ ~drawingConnection')
      ]_vars

\* C18: every listed shape is a rectangle, a circle, a line, an arrow or a
\* text.
KindsAreTheFive ==
    \A c \in Listed :
        heap[c].type \in {"rectangle", "circle", "line", "arrow", "text"}

\* C19: a pointer-up that ends a text-tool gesture appends one text shape
\* at the gesture's start with the answer as its label when prompt()
\* returns a non-empty string, and otherwise (declined, or the empty
\* string) leaves the shape list, the shapes and the id counter alone and
\* ends with no gesture flag set.
TextCommitNeedsLabel ==
    [][\A p \in Points, answer \in PromptAnswers :
          (/\ ~drawingConnection
           /\ isDrawing
           /\ currentTool = "text"
           /\ MouseUp(p[1], p[2], answer))
          => IF answer.ok /\ answer.text # ""
             THEN /\ Len(heap') = Len(heap) + 1
                  /\ shapes' = Append(shapes, Len(heap'))
                  /\ heap'[Len(heap')].type = "text"
                  /\ heap'[Len(heap')].x = startX
                  /\ heap'[Len(heap')].y = startY
                  /\ heap'[Len(heap')].text = answer.text
             ELSE /\ shapes' = shapes
                  /\ heap' = heap
                  /\ nextShapeId' = nextShapeId
                  /\ ~isDragging' /\ ~isDrawing' /\ ~drawingConnection'
      ]_vars

\* A text with a label is the last of the list, and no gesture is under
\* way with the text tool still chosen.
TextCommitNeedsLabelWitness ==
    /\ Idle
    /\ currentTool = "text"
    /\ shapes # << >>
    /\ heap[shapes[Len(shapes)]].type = "text"
    /\ heap[shapes[Len(shapes)]].text # ""

\* C20: a pointer-up at p that ends a line- or arrow-tool drawing appends
\* exactly one connector of the tool's kind with no node reference, whose
\* resolved start is the gesture's start and whose resolved end is p,
\* whatever p is (the start itself included).
FreeConnectorCommits ==
    [][\A p \in Points :
          (/\ ~drawingConnection
           /\ isDrawing
           /\ currentTool \in {"line", "arrow"}
           /\ MouseUp(p[1], p[2], NoPrompt))
          => /\ Len(heap') = Len(heap) + 1
             /\ shapes' = Append(shapes, Len(heap'))
             /\ LET made == heap'[Len(heap')]
                IN /\ made.type = currentTool
                   /\ IsFree(made)
                   /\ ResolvedStart(heap', made) = <<startX, startY>>
                   /\ ResolvedEnd(heap', made) = p
      ]_vars

\* A free connector of no length is the last of the list.
FreeConnectorCommitsWitness ==
    /\ shapes # << >>
    /\ IsFree(heap[shapes[Len(shapes)]])
    /\ heap[shapes[Len(shapes)]].width = 0
    /\ heap[shapes[Len(shapes)]].height = 0
    /\ ~isDrawing

\* C21: the preview document of the shape list has exactly one node line
\* for each listed rectangle or circle and none for any other shape; each
\* is named node<id> and labelled with the shape's text, or with node<id>
\* when the text is empty; and the node lines stand in increasing id order.
NodeDeclarations ==
    LET doc == DOTPreviewText(heap, shapes)
        lines == LinesOfKind(doc, "node")
        nodes == {c \in Listed : IsNode(heap[c])}
    IN /\ Cardinality(lines) = Cardinality(nodes)
       /\ \A c \in nodes :
             \E i \in lines :
                /\ doc[i].name = <<"node", heap[c].id>>
                /\ doc[i].label = IF heap[c].text # ""
                                  THEN <<heap[c].text>>
                                  ELSE <<"node", heap[c].id>>
       /\ \A i, j \in lines : i < j => doc[i].name[2] < doc[j].name[2]

\* Two nodes are listed, one with a label and one without.
NodeDeclarationsWitness ==
    \E a, b \in Listed :
        /\ IsNode(heap[a]) /\ IsNode(heap[b])
        /\ heap[a].text # ""
        /\ heap[b].text = ""

\* The edge lines of a document are those of the listed connectors with
\* both ends bound: each names node<id of the start node> on the left and
\* node<id of the end node> on the right, with `->` for an arrow and `--`
\* for a line.
EdgeLinesMatch(doc) ==
    LET lines == LinesOfKind(doc, "edge")
        bound == {c \in Listed : IsConnector(heap[c]) /\ FullyBound(heap[c])}
        Matches(i, c) ==
            /\ doc[i].from = <<"node", heap[heap[c].startNode].id>>
            /\ doc[i].to = <<"node", heap[heap[c].endNode].id>>
            /\ heap[c].type = "arrow" => doc[i].op = "->"
            /\ heap[c].type = "line" => doc[i].op = "--"
    IN /\ \A i \in lines : \E c \in bound : Matches(i, c)
       /\ \A c \in bound : \E i \in lines : Matches(i, c)

\* C22: every edge line of the preview document and of the exported
\* document has `->` when its connector is an arrow and `--` when it is a
\* line, the connector's start node on the left and its end node on the
\* right.
EdgeOperatorAndEnds ==
    /\ EdgeLinesMatch(DOTPreviewText(heap, shapes))
    /\ EdgeLinesMatch(ExportToDOTText(heap, shapes))

\* A line connector bound at both ends is listed and the preview shows its
\* edge, undirected, between two different names.
EdgeOperatorAndEndsWitness ==
    /\ \E c \in Listed : heap[c].type = "line" /\ FullyBound(heap[c])
    /\ dotPreview = DOTPreviewText(heap, shapes)
    /\ \E i \in LinesOfKind(dotPreview, "edge") :
          dotPreview[i].op = "--" /\ dotPreview[i].from # dotPreview[i].to

\* Every write updateShapeProperty can be called with here.
AllWrites ==
    {<<"text", v>> : v \in EditorLabels}
    \cup {<<"strokeColor", v>> : v \in EditorColors}
    \cup {<<"fillColor", v>> : v \in EditorColors}
    \cup {<<"lineWidth", v>> : v \in EditorWidths}

\* C23: updateShapeProperty(property, value) with a shape selected sets
\* that property of the selected shape to the value and leaves its other
\* fields, every other shape, the shape list, the selection and the id
\* counter as they were, and the preview it leaves is the document of the
\* shape list it leaves; with nothing selected it changes nothing.
EditWritesOneProperty ==
    [][\A w \in AllWrites :
          UpdateShapeProperty(w[1], w[2])
          => /\ IF selectedShape # Null
                THEN /\ Len(heap') = Len(heap)
                     /\ heap'[selectedShape][w[1]] = w[2]
                     /\ \A f \in DOMAIN heap[selectedShape] \ {w[1]} :
                           heap'[selectedShape][f] = heap[selectedShape][f]
                     /\ \A a \in 1..Len(heap) \ {selectedShape} :
                           heap'[a] = heap[a]
                     /\ dotPreview' = DOTPreviewText(heap', shapes')
                ELSE UNCHANGED <<heap, dotPreview>>
             /\ UNCHANGED <<shapes, selectedShape, nextShapeId, currentTool,
                            isDragging, isDrawing, drawingConnection>>
      ]_vars

\* The selected node has got the panel's label while another shape is
\* listed, and the preview declares it under that label.
EditWritesOnePropertyWitness ==
    /\ edits > 0
    /\ selectedShape \in Listed
    /\ IsNode(heap[selectedShape])
    /\ heap[selectedShape].text = "B"
    /\ Listed # {selectedShape}
    /\ \E i \in LinesOfKind(dotPreview, "node") :
          /\ dotPreview[i].name = <<"node", heap[selectedShape].id>>
          /\ dotPreview[i].label = <<"B">>

\* C24: at most one of the three gesture flags is set.
OneGestureAtATime ==
    /\ ~(isDragging /\ isDrawing)
    /\ ~(isDragging /\ drawingConnection)
    /\ ~(isDrawing /\ drawingConnection)

\* C25: the connector a pointer-up commits from a connection under way has
\* a start node and an end node that are both in the shape list it is
\* appended to, whatever was deleted or cleared since the pointer-down.
\* (Stated for a connection that is the only gesture under way in an editor
\* whose shapes are all of the five kinds.)
CommittedEndsAreListed ==
    [][\A p \in Points :
          (/\ drawingConnection /\ ~isDrawing /\ ~isDragging
           /\ \A a \in 1..Len(heap) : IsNode(heap[a]) \/ ~HasAnchors(heap[a])
           /\ MouseUp(p[1], p[2], NoPrompt)
           /\ Len(heap') = Len(heap) + 1)
          => LET made == heap'[Len(heap')]
                 listed == {shapes'[i] : i \in 1..Len(shapes')}
             IN /\ made.startNode \in listed
                /\ made.endNode \in listed
      ]_vars

\* C26: a pointer-up at p that commits a connection binds its end to the
\* most recently created of the listed nodes, other than the source, that
\* have an anchor in range of p.
ReleaseBindsMostRecent ==
    [][\A p \in Points :
          (/\ drawingConnection
           /\ MouseUpWithin(p[1], p[2], NoPrompt, MaxConnectShapes)
           /\ Len(heap') = Len(heap) + 1)
          => \A c \in InAnchorRange(p) \ {startConnectionPoint.shape} :
                heap[c].id <= heap[heap'[Len(heap')].endNode].id
      ]_vars

\* The fields of a shape the serializer reads.
SerializedFields ==
    {"id", "type", "text", "fillColor", "strokeColor", "lineWidth",
     "startNode", "endNode"}

\* C27: after every step that changes the shape list or a serialized
\* field of a listed shape, the preview is the document of the shape list
\* the step leaves.
PreviewNeverStale ==
    [][(\/ shapes' # shapes
        \/ \E c \in Listed, f \in SerializedFields : heap'[c][f] # heap[c][f])
       => dotPreview' = DOTPreviewText(heap', shapes')
      ]_vars

\* C28: on every shape list, the text updateDOTPreview builds and the text
\* exportToDOT builds are the same, line by line.
SerializersAgree ==
    probe.done => probe.preview = probe.exported

\* Both serializers have run on a list with a labelled node, a bound
\* connector and a second node: the document has the label and an edge.
SerializersAgreeWitness ==
    /\ probe.done
    /\ shapes = <<1, 2, 3>>
    /\ heap[1].text # ""
    /\ FullyBound(heap[3])
    /\ \E i \in LinesOfKind(probe.exported, "node") :
          probe.exported[i].label = <<heap[1].text>>
    /\ LinesOfKind(probe.exported, "edge") # {}

\* C29: in every state the selection is empty or a shape of the shape
\* list, and every step that takes a shape out of the list leaves the
\* selection empty.
SelectionIsListed ==
    /\ [](selectedShape = Null \/ selectedShape \in Listed)
    /\ [][(\E c \in Listed : \A i \in 1..Len(shapes') : shapes'[i] # c)
          => selectedShape' = Null]_vars

\* A shape has been deleted while others stay listed, and nothing is
\* selected.
SelectionIsListedWitness ==
    /\ selectedShape = Null
    /\ shapes # << >>
    /\ Len(shapes) < Len(heap)

\* C30: every connector in the shape list has either both node references
\* and both anchor names set, with two different nodes and anchor names
\* among north, south, east and west, or none of the four.
BindingAllOrNothing ==
    \A c \in Listed :
        IsConnector(heap[c]) =>
            LET s == heap[c]
            IN \/ /\ s.startNode # Null
                  /\ s.endNode # Null
                  /\ s.startNode # s.endNode
                  /\ s.startPoint \in {"north", "south", "east", "west"}
                  /\ s.endPoint \in {"north", "south", "east", "west"}
               \/ /\ s.startNode = Null
                  /\ s.endNode = Null
                  /\ s.startPoint = NullPoint
                  /\ s.endPoint = NullPoint

\* A connector bound at both ends is in the shape list together with its
\* two nodes.
BindingAllOrNothingWitness ==
    \E c \in Listed :
        /\ IsConnector(heap[c])
        /\ heap[c].startNode \in Listed
        /\ heap[c].endNode \in Listed
        /\ heap[c].startPoint # NullPoint
        /\ heap[c].endPoint # NullPoint

\* A step in which a request fails: fetch() rejects or answers with a
\* status outside 200..299, or res.json() rejects.
RequestFails ==
    \/ \E i \in 1..MaxChecks, outcome \in FetchOutcomes :
          /\ outcome.kind = "reject" \/ ~ResponseOk(outcome.status)
          /\ FetchSettles(i, outcome)
    \/ \E i \in 1..MaxChecks, outcome \in JsonOutcomes :
          /\ outcome.kind = "reject"
          /\ JsonSettles(i, outcome)

\* C31: while a request of the comparison client is under way the check
\* button is disabled, so at most one request is under way; the step that
\* ends a request, whatever its outcome, leaves the button enabled; a
\* request that fails leaves an error message shown and the findings list
\* empty; and every request under way leads to the button being enabled
\* again.
CheckButtonCycle ==
    /\ [](client.pending # << >> => client.disabled)
    /\ [](Len(client.pending) <= 1)
    /\ [][Len(client'.pending) < Len(client.pending)
          => ~client'.disabled /\ client'.label = "Check Diagram"]_vars
    /\ [][RequestFails
          => /\ client'.errorVisible
             /\ client'.errorText # NoText
             /\ client'.list = << >>]_vars
    /\ (client.pending # << >>) ~> ~client.disabled

\* A request has been answered with status 500: the button is enabled
\* again, the error is shown, no finding is listed and no request is under
\* way.
CheckButtonCycleWitness ==
    /\ client.clicks > 0
    /\ client.pending = << >>
    /\ ~client.disabled
    /\ client.errorVisible
    /\ client.errorText = <<"Server error: ", 500>>
    /\ client.list = << >>

=============================================================================
